---- MODULE Spec2Model ----
(***************************************************************************)
(* MCDashboard: the BotManager (account store, connection lifecycle        *)
(* controller, log ring buffer, notification hub) of                       *)
(* src/backend/tests/websocket.test.ts lines 112-518.                      *)
(*                                                                         *)
(* One action per command or connection-event handler.  A handler is       *)
(* computed by threading a manager record                                  *)
(*   [accounts, db, bots, conns, emits, threw]                             *)
(* through the operators that model the methods it calls, in call order.   *)
(***************************************************************************)
EXTENDS Integers, Sequences, FiniteSets, TLC

VARIABLES
    accounts,   \* BotManager.accounts: Map<id, BotAccount>, in insertion order
    db,         \* rows of the accounts table, in rowid order
    bots,       \* BotManager.bots: Map<id, handle>; NoBot when there is no entry
    conns,      \* the connections the libraries opened: owner id, type, state
    pending,    \* removeAccount calls suspended at `await this.disconnectBot(id)`
    now,        \* the wall clock read by log()
    emits,      \* snapshots emitted ('update' events) by the last step, in order
    lastOp,     \* the command or event handler that ran last, and how it ended
    sent,       \* per id: number of log() calls made by AppendLogDeep
    observers,  \* server.ts: the open WebSockets, subscribed to 'accounts'
    listeners,  \* number of broadcastUpdate listeners on the manager's 'update'
    isInitialized,  \* server.ts: globalForBots.isInitialized
    delivered   \* per observer: the messages sent to it by the last step, in order

vars == <<accounts, db, bots, conns, pending, now, emits, lastOp, sent,
          observers, listeners, isInitialized, delivered>>

----------------------------------------------------------------------------
(* Bounds of the model *)

Ids == {"a", "b"}
\* the (username, type) pairs accounts are added with
Profiles == {<<"u1", "java">>, <<"u2", "bedrock">>}

\* connections that may be open (not yet ended, or still referenced) at once
MaxConns == 2
\* log lines held by all accounts together, in every specification but LogSpec
MaxLogLen == 3
\* clock readings 0..MaxTime
MaxTime == 1
\* log() calls per account explored by LogSpec
MaxAppends == 102
\* removeAccount calls suspended at once
MaxPending == 1

\* log(): `if (account.logs.length > 100) account.logs.shift()`
LogCap == 100

----------------------------------------------------------------------------
(* Values *)

NoBot == 0
ConnIds == 1..MaxConns

\* the number zero, as stat values are written (see Normal)
Zero == [m |-> 0, e |-> 0]

\* accountData: { shards: 0, money: 0, kills: 0, deaths: 0 }
ZeroStats == [shards |-> Zero, money |-> Zero, kills |-> Zero, deaths |-> Zero]

NoConn == [id |-> "-", type |-> "-", state |-> "none", closeReq |-> FALSE]

\* a fresh BotAccount, as addAccount and loadAccounts build it
NewAccount(id, username, type) ==
    [id |-> id, username |-> username, type |-> type,
     status |-> "offline", logs |-> <<>>, accountData |-> ZeroStats]

----------------------------------------------------------------------------
(* Map<string, BotAccount> as a sequence in insertion order *)

HasAccount(accs, id) == \E i \in 1..Len(accs) : accs[i].id = id

IndexOfId(accs, id) == CHOOSE i \in 1..Len(accs) : accs[i].id = id

GetAccount(accs, id) == accs[IndexOfId(accs, id)]

\* Map.set: replaces the value of an existing key in place, appends a new key
MapSet(accs, rec) ==
    IF HasAccount(accs, rec.id)
    THEN [accs EXCEPT ![IndexOfId(accs, rec.id)] = rec]
    ELSE Append(accs, rec)

\* Map.delete / DELETE FROM accounts WHERE id = ?
MapDelete(accs, id) == SelectSeq(accs, LAMBDA r : r.id # id)

AccountIds(accs) == {accs[i].id : i \in 1..Len(accs)}

----------------------------------------------------------------------------
(* The manager record threaded through one handler *)

M == [accounts |-> accounts, db |-> db, bots |-> bots, conns |-> conns,
      emits |-> <<>>, threw |-> FALSE]

\* getAccounts(): Array.from(this.accounts.values())
getAccounts(m) == m.accounts

\* this.emit('update', this.getAccounts())
Emit(m) == [m EXCEPT !.emits = Append(@, getAccounts(m))]

\* `[${new Date().toLocaleTimeString()}] ${message}`
LogLine(time, message) == <<time, message>>

\* the message part of a log line
LineMessage(line) == line[2]

\* faulty variant of Push: evicts the newest entry instead of the oldest
PushKeepOldest(logs, line) ==
    IF Len(logs) + 1 > LogCap THEN logs ELSE Append(logs, line)

\* faulty variant of Push: the eviction is forgotten
PushUnbounded(logs, line) == Append(logs, line)

\* account.logs.push(line); if (account.logs.length > 100) account.logs.shift()
Push(logs, line) ==
    LET pushed == Append(logs, line)
    IN  IF Len(pushed) > LogCap THEN Tail(pushed) ELSE pushed

\* faulty variant of log: the snapshot is emitted before the line is pushed
logEmitFirst(m, id, message) ==
    IF HasAccount(m.accounts, id)
    THEN LET m1 == Emit(m)
             i == IndexOfId(m1.accounts, id)
         IN  [m1 EXCEPT !.accounts[i].logs = Push(@, LogLine(now, message))]
    ELSE m

\* faulty variant of log: an append for a missing account still notifies
logEmitOnMissing(m, id, message) ==
    IF HasAccount(m.accounts, id)
    THEN LET i == IndexOfId(m.accounts, id)
         IN  Emit([m EXCEPT !.accounts[i].logs = Push(@, LogLine(now, message))])
    ELSE Emit(m)

\* log(id, message)
log(m, id, message) ==
    IF HasAccount(m.accounts, id)
    THEN LET i == IndexOfId(m.accounts, id)
         IN  Emit([m EXCEPT !.accounts[i].logs = Push(@, LogLine(now, message))])
    ELSE m

\* account.status = s, on the account object fetched by this.accounts.get(id)
SetStatus(m, id, s) ==
    IF HasAccount(m.accounts, id)
    THEN [m EXCEPT !.accounts[IndexOfId(m.accounts, id)].status = s]
    ELSE m

----------------------------------------------------------------------------
(* Connections *)

FreeConns(cs) == {c \in ConnIds : cs[c].state = "none"}

\* a connection that ended and that no handle refers to is forgotten
Collect(m) ==
    [m EXCEPT !.conns =
        [c \in ConnIds |->
            IF m.conns[c].state = "ended" /\ \A id \in Ids : m.bots[id] # c
            THEN NoConn ELSE m.conns[c]]]

\* bot.quit() / bot.close(): asks the connection to close
RequestClose(m, c) == [m EXCEPT !.conns[c].closeReq = TRUE]

\* the close method disconnectBot picks, from the account's current type
CloseMethod(m, id) ==
    IF HasAccount(m.accounts, id) /\ GetAccount(m.accounts, id).type = "java"
    THEN "java" ELSE "bedrock"

\* faulty variant of disconnectBot: the handle is closed but stays in the map
disconnectBotKeepHandle(m, id, lib) ==
    IF m.bots[id] = NoBot THEN m
    ELSE RequestClose(log(m, id, <<"Disconnecting manually...", "">>), m.bots[id])

\* disconnectBot(id).  lib is what calling the other library's close method on
\* the handle does (quit() on a bedrock client, close() on a mineflayer bot):
\* "ok" closes it, "throws" raises before this.bots.delete(id).
disconnectBot(m, id, lib) ==
    IF m.bots[id] = NoBot THEN m
    ELSE LET c  == m.bots[id]
             m1 == log(m, id, <<"Disconnecting manually...", "">>)
         IN  IF CloseMethod(m1, id) # m1.conns[c].type /\ lib = "throws"
             THEN [m1 EXCEPT !.threw = TRUE]
             ELSE [RequestClose(m1, c) EXCEPT !.bots[id] = NoBot]

----------------------------------------------------------------------------
(* Steps *)

\* what ran last: the handler, the id it was about, how it ended, the number of
\* snapshots the whole operation emitted, and the inputs a claim needs
Op(op, id, res, n, arg) == [op |-> op, id |-> id, res |-> res, n |-> n, arg |-> arg]

\* server.ts: the observers there can be
Observers == {"w1", "w2"}

Nothing == [o \in Observers |-> <<>>]

\* broadcastUpdate, once per listener registered on 'update', for each snapshot
\* emitted: what app.server.publish('accounts', ...) sends to a subscriber
RECURSIVE Published(_, _)
Published(es, k) ==
    IF es = <<>> THEN <<>>
    ELSE [i \in 1..k |-> [type |-> "update", accounts |-> Head(es)]]
         \o Published(Tail(es), k)

\* what the snapshots es, emitted by one handler, bring to each observer
Broadcast(es) ==
    [o \in Observers |->
        IF o \in observers THEN Published(es, listeners) ELSE <<>>]

\* the state a handler leaves behind
Commit(m0, op) ==
    LET m == Collect(m0)
    IN  /\ accounts' = m.accounts
        /\ db' = m.db
        /\ bots' = m.bots
        /\ conns' = m.conns
        /\ emits' = m.emits
        /\ lastOp' = op
        /\ delivered' = Broadcast(m.emits)
        /\ UNCHANGED <<observers, listeners, isInitialized>>

\* log lines held by all accounts together
RECURSIVE TotalLines(_)
TotalLines(accs) ==
    IF accs = <<>> THEN 0 ELSE Len(Head(accs).logs) + TotalLines(Tail(accs))

\* room for k more log lines on id's account, within the bound of Spec
Room(id, k) ==
    HasAccount(accounts, id) => TotalLines(accounts) + k <= MaxLogLen

\* server.ts, lines 80-84: one evaluation of the module's listener set-up, from
\* the flag it finds on the global object
EvaluateServer(initialized) ==
    [listeners |-> IF initialized THEN 0 ELSE 1, isInitialized |-> TRUE]

Init ==
    /\ observers = {}
    /\ listeners = EvaluateServer(FALSE).listeners
    /\ isInitialized = EvaluateServer(FALSE).isInitialized
    /\ delivered = Nothing
    /\ accounts = <<>>
    /\ db = <<>>
    /\ bots = [id \in Ids |-> NoBot]
    /\ conns = [c \in ConnIds |-> NoConn]
    /\ pending = <<>>
    /\ now = 0
    /\ emits = <<>>
    /\ lastOp = Op("init", "-", "ok", 0, <<>>)
    /\ sent = [id \in Ids |-> 0]

\* the wall clock advances
Tick ==
    /\ now < MaxTime
    /\ now' = now + 1
    /\ emits' = <<>>
    /\ lastOp' = Op("tick", "-", "ok", 0, <<>>)
    /\ delivered' = Nothing
    /\ UNCHANGED <<accounts, db, bots, conns, pending, sent,
                   observers, listeners, isInitialized>>

----------------------------------------------------------------------------
(* Commands *)

DbHas(rows, id) == \E i \in 1..Len(rows) : rows[i].id = id

\* faulty variant of addAccount: the account is mirrored with the other variant
addAccountWrongType(m, account) ==
    IF DbHas(m.db, account.id)
    THEN [m EXCEPT !.threw = TRUE]
    ELSE Emit([m EXCEPT
            !.db = Append(@, account),
            !.accounts = MapSet(@, NewAccount(account.id, account.username,
                                   IF account.type = "java" THEN "bedrock" ELSE "java"))])

\* faulty variant of addAccount: an existing id is overwritten (INSERT OR REPLACE)
addAccountReplace(m, account) ==
    Emit([m EXCEPT
            !.db = Append(MapDelete(@, account.id), account),
            !.accounts = MapSet(@, NewAccount(account.id, account.username, account.type))])

\* addAccount(account): the INSERT throws on an id that has a row (PRIMARY KEY)
addAccount(m, account) ==
    IF DbHas(m.db, account.id)
    THEN [m EXCEPT !.threw = TRUE]
    ELSE Emit([m EXCEPT
            !.db = Append(@, account),
            !.accounts = MapSet(@, NewAccount(account.id, account.username, account.type))])

AddAccount(id, username, type) ==
    LET m == addAccount(M, [id |-> id, username |-> username, type |-> type])
    IN  /\ Commit(m, Op("addAccount", id,
                        IF m.threw THEN "DuplicateId" ELSE "ok", Len(m.emits),
                        <<username, type>>))
        /\ sent' = IF m.threw THEN sent ELSE [sent EXCEPT ![id] = 0]
        /\ UNCHANGED <<pending, now>>

\* removeAccount(id), up to its await: the call of disconnectBot
removeAccountCall(m, id, lib) == disconnectBot(m, id, lib)

\* faulty variant of removeAccountResume: the row is left in the database
removeAccountKeepRow(m, id) ==
    Emit([m EXCEPT !.accounts = MapDelete(@, id)])

\* removeAccount(id), after its await: DELETE, accounts.delete, emit
removeAccountResume(m, id) ==
    Emit([m EXCEPT !.db = MapDelete(@, id), !.accounts = MapDelete(@, id)])

RemoveAccount(id, lib) ==
    LET m == removeAccountCall(M, id, lib)
    IN  /\ Len(pending) < MaxPending
        /\ bots[id] # NoBot => Room(id, 1)
        /\ IF m.threw
           THEN /\ Commit(m, Op("removeAccount", id, "threw", Len(m.emits), <<>>))
                /\ pending' = pending
           ELSE /\ Commit(m, Op("removeAccountCall", id, "ok", Len(m.emits), <<>>))
                /\ pending' = Append(pending,
                        [id |-> id, n |-> Len(m.emits),
                         held |-> bots[id] # NoBot /\ HasAccount(accounts, id)])
        /\ UNCHANGED <<now, sent>>

\* the continuation of the oldest suspended removeAccount runs
ResumeRemove ==
    /\ pending # <<>>
    /\ LET p == Head(pending)
           m == removeAccountResume(M, p.id)
       IN  Commit(m, Op("removeAccount", p.id, "ok", p.n + Len(m.emits), <<p.held>>))
    /\ pending' = Tail(pending)
    /\ UNCHANGED <<now, sent>>

\* faulty variant of connectVariant: a failed open puts the account in error
connectVariantToError(m, id, type, opener, c) ==
    IF opener = "throws"
    THEN SetStatus(log(m, id, <<"Connection failed", type>>), id, "error")
    ELSE [m EXCEPT !.conns[c] = [id |-> id, type |-> type,
                                 state |-> "live", closeReq |-> FALSE],
                   !.bots[id] = c]

\* connectJava / connectBedrock: opener "throws" is createBot / createClient
\* raising; otherwise the handlers are bound and the handle is stored
connectVariant(m, id, type, opener, c) ==
    IF opener = "throws"
    THEN log(m, id, <<"Connection failed", type>>)
    ELSE [m EXCEPT !.conns[c] = [id |-> id, type |-> type,
                                 state |-> "live", closeReq |-> FALSE],
                   !.bots[id] = c]

\* faulty variant of connectBot: the guard against an online account is dropped
connectBotNoGuard(m, id, opener, c) ==
    IF ~HasAccount(m.accounts, id) THEN m
    ELSE LET acc == GetAccount(m.accounts, id)
             m1  == Emit(SetStatus(m, id, "connecting"))
             m2  == log(m1, id, <<"Connecting to", acc.type>>)
         IN  connectVariant(m2, id, acc.type, opener, c)

\* faulty variant of connectBot: the account is marked online as soon as it connects
connectBotOnline(m, id, opener, c) ==
    IF ~HasAccount(m.accounts, id) \/ GetAccount(m.accounts, id).status = "online"
    THEN m
    ELSE LET acc == GetAccount(m.accounts, id)
             m1  == Emit(SetStatus(m, id, "online"))
             m2  == log(m1, id, <<"Connecting to", acc.type>>)
         IN  connectVariant(m2, id, acc.type, opener, c)

\* connectBot(id)
connectBot(m, id, opener, c) ==
    IF ~HasAccount(m.accounts, id) \/ GetAccount(m.accounts, id).status = "online"
    THEN m
    ELSE LET acc == GetAccount(m.accounts, id)
             m1  == Emit(SetStatus(m, id, "connecting"))
             m2  == log(m1, id, <<"Connecting to", acc.type>>)
         IN  connectVariant(m2, id, acc.type, opener, c)

\* whether connectBot(id) passes its guard
WillConnect(id) ==
    HasAccount(accounts, id) /\ GetAccount(accounts, id).status # "online"

\* connectBot(id) as one step, on the first free connection slot
ConnectBotStep(id, opener) ==
    /\ (WillConnect(id) /\ opener = "ok") => FreeConns(conns) # {}
    /\ LET free == FreeConns(conns)
           c == IF free = {} THEN 1 ELSE CHOOSE x \in free : \A y \in free : x <= y
           m == connectBot(M, id, opener, c)
       IN  Commit(m, Op("connectBot", id,
                        IF m.bots[id] # bots[id] THEN "opened"
                        ELSE IF WillConnect(id) /\ opener = "throws" THEN "failed"
                        ELSE "none",
                        Len(m.emits), <<>>))
    /\ UNCHANGED <<pending, now, sent>>

ConnectBot(id, opener) ==
    /\ WillConnect(id) => Room(id, 2)
    /\ ConnectBotStep(id, opener)

\* disconnectBot(id) as one step
DisconnectBotStep(id, lib) ==
    /\ LET m == disconnectBot(M, id, lib)
       IN  Commit(m, Op("disconnectBot", id,
                        IF m.threw THEN "threw" ELSE "ok", Len(m.emits), <<>>))
    /\ UNCHANGED <<pending, now, sent>>

DisconnectBot(id, lib) ==
    /\ bots[id] # NoBot => Room(id, 1)
    /\ DisconnectBotStep(id, lib)

\* log(id, message) called from outside (appendLog of the command surface)
AppendLog(id) ==
    /\ Room(id, 1)
    /\ LET m == log(M, id, <<"msg", "">>)
       IN  Commit(m, Op("log", id,
                        IF HasAccount(accounts, id) THEN "appended" ELSE "ignored",
                        Len(m.emits), <<>>))
    /\ UNCHANGED <<pending, now, sent>>

\* the k-th log() call on an account carries the message <<"msg", k>>
AppendLogDeep(id) ==
    /\ HasAccount(accounts, id)
    /\ sent[id] < MaxAppends
    /\ LET m == log(M, id, <<"msg", sent[id] + 1>>)
       IN  Commit(m, Op("log", id, "appended", Len(m.emits), <<>>))
    /\ sent' = [sent EXCEPT ![id] = @ + 1]
    /\ UNCHANGED <<pending, now>>

\* new BotManager() in a new process: initDb, loadAccounts
loadAccounts(rows) ==
    [i \in 1..Len(rows) |-> NewAccount(rows[i].id, rows[i].username, rows[i].type)]

\* faulty variant of Restart: the accounts in memory outlive the process
RestartKeepsRuntime ==
    /\ accounts' = accounts
    /\ bots' = [id \in Ids |-> NoBot]
    /\ conns' = [c \in ConnIds |-> NoConn]
    /\ pending' = <<>>
    /\ emits' = <<>>
    /\ lastOp' = Op("restart", "-", "ok", 0, <<>>)
    /\ observers' = {}
    /\ listeners' = EvaluateServer(FALSE).listeners
    /\ isInitialized' = EvaluateServer(FALSE).isInitialized
    /\ delivered' = Nothing
    /\ UNCHANGED <<db, now, sent>>

Restart ==
    /\ accounts' = loadAccounts(db)
    /\ bots' = [id \in Ids |-> NoBot]
    /\ conns' = [c \in ConnIds |-> NoConn]
    /\ pending' = <<>>
    /\ emits' = <<>>
    /\ lastOp' = Op("restart", "-", "ok", 0, <<>>)
    /\ observers' = {}
    /\ listeners' = EvaluateServer(FALSE).listeners
    /\ isInitialized' = EvaluateServer(FALSE).isInitialized
    /\ delivered' = Nothing
    /\ UNCHANGED <<db, now, sent>>

----------------------------------------------------------------------------
(* Text: a string is a sequence of characters, each a TLA+ string.  "SS"     *)
(* stands for the section sign, and "STAR", "SWORD", "SKULL", "HOURGLASS"    *)
(* and "WATCH" for the glyphs of updateStat's clean-up.                      *)

Digits == <<"0", "1", "2", "3", "4", "5", "6", "7", "8", "9">>
IsDigit(ch) == \E i \in 1..10 : Digits[i] = ch
DigitVal(ch) == (CHOOSE i \in 1..10 : Digits[i] = ch) - 1

UpperCase == <<"A", "B", "C", "D", "E", "F", "G", "H", "I", "J", "K", "L", "M",
               "N", "O", "P", "Q", "R", "S", "T", "U", "V", "W", "X", "Y", "Z">>
LowerCase == <<"a", "b", "c", "d", "e", "f", "g", "h", "i", "j", "k", "l", "m",
               "n", "o", "p", "q", "r", "s", "t", "u", "v", "w", "x", "y", "z">>

\* String.prototype.toLowerCase
toLowerCase(s) ==
    [i \in 1..Len(s) |->
        IF \E k \in 1..26 : UpperCase[k] = s[i]
        THEN LowerCase[CHOOSE k \in 1..26 : UpperCase[k] = s[i]]
        ELSE s[i]]

\* whether sub occurs in s at position i
OccursAt(s, sub, i) ==
    /\ i >= 1
    /\ i + Len(sub) - 1 <= Len(s)
    /\ \A k \in 1..Len(sub) : s[i + k - 1] = sub[k]

\* String.prototype.includes
includes(s, sub) == \E i \in 1..(Len(s) + 1) : OccursAt(s, sub, i)

\* the position of the first occurrence of sub in s at or after from; 0 if none
IndexFrom(s, sub, from) ==
    LET at == {i \in from..(Len(s) + 1) : OccursAt(s, sub, i)}
    IN  IF at = {} THEN 0 ELSE CHOOSE i \in at : \A j \in at : i <= j

\* s.split(label)[1] for a non-empty label that occurs in s: the text between
\* its first occurrence and its next one (or the end of s)
SplitSecond(s, label) ==
    LET first == IndexFrom(s, label, 1)
        start == first + Len(label)
        next  == IndexFrom(s, label, start)
    IN  SubSeq(s, start, IF next = 0 THEN Len(s) ELSE next - 1)

\* String.prototype.trim (blanks only)
RECURSIVE trim(_)
trim(s) ==
    IF s = <<>> THEN s
    ELSE IF Head(s) = " " THEN trim(Tail(s))
    ELSE IF s[Len(s)] = " " THEN trim(SubSeq(s, 1, Len(s) - 1))
    ELSE s

\* rawText.replace(/SS./g, '')
RECURSIVE StripAnyCode(_)
StripAnyCode(s) ==
    IF s = <<>> THEN s
    ELSE IF Head(s) = "SS" /\ Len(s) >= 2 THEN StripAnyCode(SubSeq(s, 3, Len(s)))
    ELSE <<Head(s)>> \o StripAnyCode(Tail(s))

Glyphs == {"STAR", "$", "SWORD", "SKULL", "HOURGLASS", "WATCH"}

\* .replace(/[glyphs]/g, '')
StripGlyphs(s) == SelectSeq(s, LAMBDA ch : ch \notin Glyphs)

ColorCodes == {"0", "1", "2", "3", "4", "5", "6", "7", "8", "9",
               "a", "b", "c", "d", "e", "f", "k", "l", "m", "n", "o", "r"}

\* text.replace(/SS[0-9a-fk-or]/g, '')
RECURSIVE StripColorCode(_)
StripColorCode(s) ==
    IF s = <<>> THEN s
    ELSE IF Head(s) = "SS" /\ Len(s) >= 2 /\ s[2] \in ColorCodes
         THEN StripColorCode(SubSeq(s, 3, Len(s)))
    ELSE <<Head(s)>> \o StripColorCode(Tail(s))

\* the length of the run of digits of s that starts at position i
RECURSIVE DigitRun(_, _)
DigitRun(s, i) ==
    IF i <= Len(s) /\ IsDigit(s[i]) THEN 1 + DigitRun(s, i + 1) ELSE 0

RECURSIVE DigitsValue(_)
DigitsValue(ds) ==
    IF ds = <<>> THEN 0 ELSE 10 * DigitsValue(SubSeq(ds, 1, Len(ds) - 1)) + DigitVal(ds[Len(ds)])

NoMatch == [found |-> FALSE, int |-> <<>>, frac |-> <<>>, suffix |-> ""]

\* s.match(/(\d+\.?\d*)([kmb])?/): the leftmost match starts at the first digit;
\* \d+ takes the whole run, then an optional dot, then the digits after it,
\* then an optional suffix
matchNumber(s) ==
    LET at == {i \in 1..Len(s) : IsDigit(s[i])}
    IN  IF at = {} THEN NoMatch
        ELSE LET i    == CHOOSE x \in at : \A y \in at : x <= y
                 n    == DigitRun(s, i)
                 dot  == i + n <= Len(s) /\ s[i + n] = "."
                 j    == IF dot THEN i + n + 1 ELSE i + n
                 f    == IF dot THEN DigitRun(s, j) ELSE 0
                 e    == j + f
             IN  [found |-> TRUE,
                  int |-> SubSeq(s, i, i + n - 1),
                  frac |-> SubSeq(s, j, j + f - 1),
                  suffix |-> IF e <= Len(s) /\ s[e] \in {"k", "m", "b"} THEN s[e] ELSE ""]

----------------------------------------------------------------------------
(* Numbers: a stat value is the decimal m * 10^e, with m not a multiple of   *)
(* ten (zero is m = 0, e = 0), so that equal values are equal records.       *)

RECURSIVE Normal(_, _)
Normal(m, e) ==
    IF m = 0 THEN Zero
    ELSE IF m % 10 = 0 THEN Normal(m \div 10, e + 1)
    ELSE [m |-> m, e |-> e]

RECURSIVE Pow10(_)
Pow10(k) == IF k = 0 THEN 1 ELSE 10 * Pow10(k - 1)

\* parseFloat(match[1]) * multiplier
FinalVal(match) ==
    LET mult == CASE match.suffix = "k" -> 3
                  [] match.suffix = "m" -> 6
                  [] match.suffix = "b" -> 9
                  [] OTHER -> 0
    IN  Normal(DigitsValue(match.int) * Pow10(Len(match.frac)) + DigitsValue(match.frac),
               mult - Len(match.frac))

\* the text "undefined"
Undefined == <<"u", "n", "d", "e", "f", "i", "n", "e", "d">>

Labels == << <<"m", "o", "n", "e", "y">>, <<"s", "h", "a", "r", "d", "s">> >>

LabelKey(label) == IF label = Labels[1] THEN "money" ELSE "shards"

\* ['money', 'shards'].find(l => clean.includes(l)); <<>> when none is found
FindLabel(clean) ==
    IF includes(clean, Labels[1]) THEN Labels[1]
    ELSE IF includes(clean, Labels[2]) THEN Labels[2]
    ELSE <<>>

\* the Stat Extractor of updateStat: clean-up, label, number; its result is
\* [found, key, val]
Extract(rawText) ==
    LET clean == toLowerCase(StripGlyphs(StripAnyCode(rawText)))
        label == FindLabel(clean)
        match == matchNumber(trim(SplitSecond(clean, label)))
    IN  IF label = <<>> \/ ~match.found
        THEN [found |-> FALSE, key |-> "", val |-> Zero]
        ELSE [found |-> TRUE, key |-> LabelKey(label), val |-> FinalVal(match)]

\* texts the connections deliver
TShards == <<"S", "h", "a", "r", "d", "s", " ", "1", ".", "2", "2", "m">>
TMoney  == <<"SS", "a", "M", "o", "n", "e", "y", " ", "$", "5", "0", "0">>
TNoise  == <<"h", "i", " ", "7">>
StatTexts == {TShards, TMoney, TNoise}

\* Texts for the Stat Extractor, put together from pieces: a label in some
\* spelling, a number and its value m * 10^e, a suffix and its power of ten,
\* and what stands around them (prefix, separator, tail).
LabelSpellings ==
    {[text |-> <<"S", "h", "a", "r", "d", "s">>, key |-> "shards"],
     [text |-> <<"M", "O", "N", "E", "Y">>, key |-> "money"],
     [text |-> <<"m", "o", "n", "e", "y">>, key |-> "money"]}
NumberPieces ==
    {[text |-> <<"5">>, m |-> 5, e |-> 0],
     [text |-> <<"5", "0", "0">>, m |-> 5, e |-> 2],
     [text |-> <<"1", ".", "2", "2">>, m |-> 122, e |-> -2],
     [text |-> <<"0", ".", "5">>, m |-> 5, e |-> -1]}
SuffixPieces ==
    {[text |-> <<>>, e |-> 0], [text |-> <<"k">>, e |-> 3],
     [text |-> <<"m">>, e |-> 6], [text |-> <<"b">>, e |-> 9]}
Dressings ==
    {[pre |-> <<>>, sep |-> <<" ">>, tail |-> <<>>],
     [pre |-> <<"SS", "a", "STAR", " ">>, sep |-> <<":", " ", "$">>, tail |-> <<>>],
     [pre |-> <<"x", " ">>, sep |-> <<" ", " ">>, tail |-> <<" ", "x">>]}

\* a text with one label followed by a number, with the key and the value
\* (number times 1, 1e3, 1e6 or 1e9) it stands for
LabelledCases ==
    {[text |-> d.pre \o l.text \o d.sep \o n.text \o x.text \o d.tail,
      key |-> l.key,
      val |-> [m |-> n.m, e |-> n.e + x.e]] :
        d \in Dressings, l \in LabelSpellings,
        n \in NumberPieces, x \in SuffixPieces}

\* "money money 5": the label is there twice before the number
RepeatedLabelCase ==
    [text |-> <<"m", "o", "n", "e", "y", " ", "m", "o", "n", "e", "y", " ", "5">>,
     key |-> "money",
     val |-> [m |-> 5, e |-> 0]]

\* texts without a recognized label
UnlabelledTexts ==
    {TNoise, <<"K", "i", "l", "l", "s", " ", "9", "k">>, <<"5", "0", "0">>,
     <<"s", "h", "a", "r", "d", " ", "7">>}

ExtractTexts ==
    {c.text : c \in LabelledCases} \cup {RepeatedLabelCase.text} \cup UnlabelledTexts

\* Extract, computed once for the texts the connections deliver
ExtractTable == [t \in StatTexts \cup ExtractTexts |-> Extract(t)]
Extracted(rawText) ==
    IF rawText \in DOMAIN ExtractTable THEN ExtractTable[rawText] ELSE Extract(rawText)

\* account.accountData[key] = val
SetStat(m, id, key, val) ==
    [m EXCEPT !.accounts[IndexOfId(m.accounts, id)].accountData[key] = val]

\* faulty variant of updateStat: the snapshot is emitted whether or not the value changed
updateStatAlwaysEmit(m, id, rawText) ==
    IF rawText = <<>> \/ rawText = Undefined \/ ~HasAccount(m.accounts, id) THEN m
    ELSE LET x == Extracted(rawText)
         IN  IF x.found THEN Emit(SetStat(m, id, x.key, x.val)) ELSE m

\* faulty variant of updateStat: a changed value is stored without a snapshot
updateStatSilent(m, id, rawText) ==
    IF rawText = <<>> \/ rawText = Undefined \/ ~HasAccount(m.accounts, id) THEN m
    ELSE LET x == Extracted(rawText)
         IN  IF x.found THEN SetStat(m, id, x.key, x.val) ELSE m

\* updateStat(id, rawText)
updateStat(m, id, rawText) ==
    IF rawText = <<>> \/ rawText = Undefined \/ ~HasAccount(m.accounts, id) THEN m
    ELSE LET x == Extracted(rawText)
         IN  IF x.found /\ GetAccount(m.accounts, id).accountData[x.key] # x.val
             THEN Emit(SetStat(m, id, x.key, x.val))
             ELSE m

\* updateNumericStat(key, searchStr) of the scoreUpdated handler: the stats it
\* leaves and whether it changed them
updateNumericStat(m, id, cleanText, key, searchStr) ==
    LET match == matchNumber(toLowerCase(cleanText))
    IN  IF /\ includes(cleanText, searchStr)
           /\ match.found
           /\ GetAccount(m.accounts, id).accountData[key] # FinalVal(match)
        THEN [m |-> SetStat(m, id, key, FinalVal(match)), changed |-> TRUE]
        ELSE [m |-> m, changed |-> FALSE]

\* bot.on('scoreUpdated'), for the text of the item it found
onScoreUpdated(m, id, text) ==
    IF ~HasAccount(m.accounts, id) THEN m
    ELSE LET cleanText == StripColorCode(text)
             s == updateNumericStat(m, id, cleanText, "shards", <<"S", "h", "a", "r", "d", "s">>)
             n == updateNumericStat(s.m, id, cleanText, "money", <<"M", "o", "n", "e", "y">>)
         IN  IF s.changed \/ n.changed THEN Emit(n.m) ELSE n.m

\* client.on('set_score'): packet.entries.forEach(e => this.updateStat(id, ...))
RECURSIVE onSetScore(_, _, _)
onSetScore(m, id, entries) ==
    IF entries = <<>> THEN m
    ELSE onSetScore(updateStat(m, id, Head(entries)), id, Tail(entries))

----------------------------------------------------------------------------
(* Connection events: the handlers connectJava / connectBedrock bind.  They  *)
(* are I/O callbacks: none runs while the continuation of a removeAccount    *)
(* (a microtask) is queued.                                                  *)

Live(c) == conns[c].state = "live" /\ pending = <<>>

\* bot.on('login') of connectJava, client.on('spawn') of connectBedrock
onJoin(m, id, type) ==
    IF HasAccount(m.accounts, id)
    THEN Emit(log(SetStatus(m, id, "online"), id,
                  IF type = "java" THEN <<"Logged in successfully!", "">>
                                   ELSE <<"Bedrock bot spawned!", "">>))
    ELSE m

\* the join handler of live connection c runs
JoinStep(c) ==
    /\ Live(c)
    /\ LET m == onJoin(M, conns[c].id, conns[c].type)
       IN  Commit(m, Op("join", conns[c].id, "ok", Len(m.emits), <<>>))
    /\ UNCHANGED <<pending, now, sent>>

Join(c) == Room(conns[c].id, 1) /\ JoinStep(c)

\* the handlers that only log: java 'spawn', 'message', 'kicked' and onMsaCode;
\* bedrock 'text', 'kick' and onMsaCode
LogOnlyEvents == {"spawn", "message", "kicked", "msaCode"}

onLogOnly(m, id, type, ev) == log(m, id, <<ev, type>>)

LogOnly(c, ev) ==
    /\ Live(c)
    /\ ev = "spawn" => conns[c].type = "java"
    /\ Room(conns[c].id, 1)
    /\ LET m == onLogOnly(M, conns[c].id, conns[c].type, ev)
       IN  Commit(m, Op(ev, conns[c].id, "ok", Len(m.emits), <<>>))
    /\ UNCHANGED <<pending, now, sent>>

\* bot.on('error') / client.on('error')
onError(m, id, type) ==
    Emit(SetStatus(log(m, id, <<"Error", type>>), id, "error"))

ErrorEvent(c) ==
    /\ Live(c)
    /\ Room(conns[c].id, 1)
    /\ LET m == onError(M, conns[c].id, conns[c].type)
       IN  Commit(m, Op("error", conns[c].id, "ok", Len(m.emits), <<>>))
    /\ UNCHANGED <<pending, now, sent>>

\* faulty variant of onEnd: the handler starts a reconnection
onEndRetry(m, id, type) ==
    Emit(SetStatus(log(m, id, <<"disconnected", type>>), id, "connecting"))

\* bot.on('end') / client.on('close')
onEnd(m, id, type) ==
    Emit(SetStatus(log(m, id, <<"disconnected", type>>), id, "offline"))

\* live connection c ends and its end handler runs
EndEventStep(c) ==
    /\ Live(c)
    /\ LET m == onEnd([M EXCEPT !.conns[c].state = "ended"], conns[c].id, conns[c].type)
       IN  Commit(m, Op("end", conns[c].id, "ok", Len(m.emits), <<>>))
    /\ UNCHANGED <<pending, now, sent>>

EndEvent(c) == Room(conns[c].id, 1) /\ EndEventStep(c)


\* the phrases the handlers look for in the lower-cased text
AfkLore ==
    <<"c", "l", "i", "c", "k", " ", "t", "o", " ", "t", "e", "l", "e", "p",
      "o", "r", "t", " ", "t", "o", " ", "a", " ", "r", "a", "n", "d", "o",
      "m", " ", "a", "f", "k", " ", "a", "r", "e", "a">>
AfkArea ==
    <<"r", "a", "n", "d", "o", "m", " ", "a", "f", "k", " ", "a", "r", "e",
      "a">>
AfkClick ==
    <<"c", "l", "i", "c", "k", " ", "t", "o", " ", "t", "e", "l", "e", "p",
      "o", "r", "t">>

\* option texts: the full lore line, a shorter button caption, and another item
OptLore ==
    <<"C", "l", "i", "c", "k", " ", "t", "o", " ", "t", "e", "l", "e", "p",
      "o", "r", "t", " ", "t", "o", " ", "a", " ", "r", "a", "n", "d", "o",
      "m", " ", "A", "F", "K", " ", "a", "r", "e", "a">>
OptArea ==
    <<"R", "a", "n", "d", "o", "m", " ", "A", "F", "K", " ", "A", "r", "e",
      "a">>
OptShop ==
    <<"S", "h", "o", "p">>

\* a window slot that is null or has no nbt
NoSlot == <<>>

OptionTexts == {OptLore, OptArea, OptShop}
MaxOptions == 2

\* windows (slots by index, nbt as JSON.stringify gives it) and forms (button texts)
Windows == UNION {[1..n -> OptionTexts \cup {NoSlot}] : n \in 1..MaxOptions}
Forms == UNION {[1..n -> OptionTexts] : n \in 1..MaxOptions}

\* the predicate of window.slots.find (java) and formData.buttons.findIndex (bedrock)
IsAfkOption(type, option) ==
    IF type = "java"
    THEN option # NoSlot /\ includes(toLowerCase(option), AfkLore)
    ELSE LET txt == toLowerCase(option)
         IN  includes(txt, AfkArea) \/ includes(txt, AfkClick)

\* findIndex: the index, from 0, of the first option the predicate accepts; -1 if none
FindIndex(type, options) ==
    LET at == {i \in 1..Len(options) : IsAfkOption(type, options[i])}
    IN  IF at = {} THEN -1 ELSE (CHOOSE i \in at : \A j \in at : i <= j) - 1

\* the option-select commands the handler sends: bot.clickWindow(item.slot, 0, 0)
\* when an item was found; client.queue('modal_form_response', targetIdx) always
PromptResponses(type, options) ==
    LET idx == FindIndex(type, options)
    IN  IF type = "java"
        THEN IF idx # -1 THEN <<idx>> ELSE <<>>
        ELSE <<IF idx # -1 THEN idx ELSE 0>>

\* what the handler does to the manager: one log line
onPrompt(m, id, type, options) ==
    LET idx == FindIndex(type, options)
    IN  IF type = "java" /\ idx = -1
        THEN log(m, id, <<"Could not find the Random AFK item", "">>)
        ELSE log(m, id, <<"Clicking button index", ToString(IF idx # -1 THEN idx ELSE 0)>>)

\* a prompt arrives on live connection c: a window for java, a form for bedrock
Prompt(c, options) ==
    /\ Live(c)
    /\ Room(conns[c].id, 1)
    /\ options \in (IF conns[c].type = "java" THEN Windows ELSE Forms)
    /\ LET m == onPrompt(M, conns[c].id, conns[c].type, options)
       IN  Commit(m, Op(IF conns[c].type = "java" THEN "windowOpen"
                                                  ELSE "modal_form_request",
                        conns[c].id, "ok", Len(m.emits),
                        <<options, PromptResponses(conns[c].type, options)>>))
    /\ UNCHANGED <<pending, now, sent>>

\* bot._client.on('teams'): the flattened prefix (or the raw one) goes to updateStat
Teams(c, text) ==
    /\ Live(c)
    /\ conns[c].type = "java"
    /\ LET m == updateStat(M, conns[c].id, text)
       IN  Commit(m, Op("teams", conns[c].id,
                        IF m.accounts # accounts THEN "changed" ELSE "same",
                        Len(m.emits), <<text>>))
    /\ UNCHANGED <<pending, now, sent>>

ScoreUpdated(c, text) ==
    /\ Live(c)
    /\ conns[c].type = "java"
    /\ LET m == onScoreUpdated(M, conns[c].id, text)
       IN  Commit(m, Op("scoreUpdated", conns[c].id,
                        IF m.accounts # accounts THEN "changed" ELSE "same",
                        Len(m.emits), <<text>>))
    /\ UNCHANGED <<pending, now, sent>>

SetScore(c, entries) ==
    /\ Live(c)
    /\ conns[c].type = "bedrock"
    /\ LET m == onSetScore(M, conns[c].id, entries)
       IN  Commit(m, Op("set_score", conns[c].id,
                        IF m.accounts # accounts THEN "changed" ELSE "same",
                        Len(m.emits), <<Len(entries)>>))
    /\ UNCHANGED <<pending, now, sent>>

----------------------------------------------------------------------------
(* Transport: server.ts.  The WebSocket commands 'connect' and 'disconnect'  *)
(* are ConnectBot and DisconnectBot, DELETE /accounts/:id is RemoveAccount   *)
(* followed by its continuation.                                             *)

\* ws open(ws): ws.subscribe('accounts'); ws.send({ type: 'init', accounts })
Open(o) ==
    /\ o \notin observers
    /\ observers' = observers \cup {o}
    /\ delivered' = [Nothing EXCEPT
            ![o] = <<[type |-> "init", accounts |-> getAccounts(M)]>>]
    /\ emits' = <<>>
    /\ lastOp' = Op("ws open", "-", "ok", 0, <<o>>)
    /\ UNCHANGED <<accounts, db, bots, conns, pending, now, sent,
                   listeners, isInitialized>>

\* the socket of an observer closes: it leaves the topic
CloseWs(o) ==
    /\ o \in observers
    /\ observers' = observers \ {o}
    /\ delivered' = Nothing
    /\ emits' = <<>>
    /\ lastOp' = Op("ws close", "-", "ok", 0, <<o>>)
    /\ UNCHANGED <<accounts, db, bots, conns, pending, now, sent,
                   listeners, isInitialized>>

\* the server module is evaluated again in the same process (reload): the
\* manager and the flag come from the global object.  keep is whether the
\* open sockets survive the reload.
Reload(keep) ==
    /\ listeners' = EvaluateServer(isInitialized).listeners
    /\ isInitialized' = EvaluateServer(isInitialized).isInitialized
    /\ observers' = IF keep THEN observers ELSE {}
    /\ delivered' = Nothing
    /\ emits' = <<>>
    /\ lastOp' = Op("reload", "-", "ok", 0, <<keep>>)
    /\ UNCHANGED <<accounts, db, bots, conns, pending, now, sent>>

\* POST /accounts: id is the random id drawn; addAccount is called and not
\* awaited, and the answer is { success: true, id } whatever becomes of it
Post(id, username, type) ==
    LET m == addAccount(M, [id |-> id, username |-> username, type |-> type])
    IN  /\ Commit(m, Op("POST /accounts", id,
                        IF m.threw THEN "DuplicateId" ELSE "ok", Len(m.emits),
                        <<username, type, [success |-> TRUE, id |-> id]>>))
        /\ sent' = IF m.threw THEN sent ELSE [sent EXCEPT ![id] = 0]
        /\ UNCHANGED <<pending, now>>

----------------------------------------------------------------------------
(* Specifications.  Each explores the whole manager within the bounds; they  *)
(* differ in the commands and events the environment issues.                 *)

\* every account and connection there is has variant t
OneVariant(t) ==
    /\ \A i \in 1..Len(accounts) : accounts[i].type = t
    /\ \A c \in ConnIds : conns[c].state # "none" => conns[c].type = t

Libs == {"ok", "throws"}
Openers == {"ok", "throws"}

\* Spec: the lifecycle of one account and its connections, one variant at a time
Next ==
    \/ \E p \in Profiles : OneVariant(p[2]) /\ AddAccount("a", p[1], p[2])
    \/ \E lib \in Libs : RemoveAccount("a", lib)
    \/ ResumeRemove
    \/ \E opener \in Openers : ConnectBot("a", opener)
    \/ \E lib \in Libs : DisconnectBot("a", lib)
    \/ Restart
    \/ \E c \in ConnIds : Join(c)
    \/ \E c \in ConnIds, ev \in {"spawn", "kicked"} : LogOnly(c, ev)
    \/ \E c \in ConnIds : ErrorEvent(c)
    \/ \E c \in ConnIds : EndEvent(c)

Spec == Init /\ [][Next]_vars

\* StoreSpec: the account store with two ids
NextStore ==
    \/ \E id \in Ids, p \in Profiles : AddAccount(id, p[1], p[2])
    \/ \E id \in Ids : RemoveAccount(id, "ok")
    \/ ResumeRemove
    \/ \E id \in Ids : ConnectBot(id, "ok")
    \/ Restart

StoreSpec == Init /\ [][NextStore]_vars

\* the entries of a set_score packet
ScoreEntries == {<<t>> : t \in StatTexts} \cup {<<TShards, TMoney>>}

\* NotifySpec: every kind of mutation of one account
NextNotify ==
    \/ Tick
    \/ \E p \in Profiles : OneVariant(p[2]) /\ AddAccount("a", p[1], p[2])
    \/ RemoveAccount("a", "ok")
    \/ ResumeRemove
    \/ ConnectBot("a", "ok")
    \/ AppendLog("a")
    \/ \E c \in ConnIds, text \in StatTexts : Teams(c, text)
    \/ \E c \in ConnIds, entries \in ScoreEntries : SetScore(c, entries)
    \/ Restart

NotifySpec == Init /\ [][NextNotify]_vars

\* LogSpec: the log ring buffer driven past its capacity
NextLog ==
    \/ \E id \in Ids : AddAccount(id, "u1", "java")
    \/ AppendLogDeep("a")
    \/ RemoveAccount("a", "ok")
    \/ ResumeRemove

LogSpec == Init /\ [][NextLog]_vars

\* ExtractSpec: the Stat Extractor on the texts of ExtractTexts, delivered as
\* teams prefixes to the connections of account a
NextExtract ==
    \/ ~HasAccount(accounts, "a") /\ AddAccount("a", "u1", "java")
    \/ bots["a"] = NoBot /\ ConnectBot("a", "ok")
    \/ \E c \in ConnIds, text \in ExtractTexts : Teams(c, text)

ExtractSpec == Init /\ [][NextExtract]_vars

\* display names of scoreboard items: the texts the connections deliver, a
\* label in each spelling followed by each number, and one text with a number
\* on either side of the label
ScoreTexts ==
    StatTexts
    \cup {l.text \o <<" ">> \o n.text \o x.text :
            l \in LabelSpellings, n \in NumberPieces, x \in SuffixPieces}
    \cup {<<"3", " ", "S", "h", "a", "r", "d", "s", " ", "5">>}

\* ScoreSpec: scoreboard items updated on the java connection of account a
NextScore ==
    \/ ~HasAccount(accounts, "a") /\ AddAccount("a", "u1", "java")
    \/ bots["a"] = NoBot /\ ConnectBot("a", "ok")
    \/ \E c \in ConnIds, text \in ScoreTexts : ScoreUpdated(c, text)

ScoreSpec == Init /\ [][NextScore]_vars

\* PromptSpec: prompts on the connections of a java and a bedrock account
NextPrompt ==
    \/ \E p \in Profiles : ~HasAccount(accounts, "a") /\ AddAccount("a", p[1], p[2])
    \/ bots["a"] = NoBot /\ ConnectBot("a", "ok")
    \/ \E c \in ConnIds, options \in Windows \cup Forms : Prompt(c, options)

PromptSpec == Init /\ [][NextPrompt]_vars

\* HandlerSpec: every command and every connection handler that writes to the
\* java account a, with one connection at a time
NextHandler ==
    \/ AddAccount("a", "u1", "java")
    \/ RemoveAccount("a", "ok")
    \/ ResumeRemove
    \/ \E opener \in Openers : FreeConns(conns) = ConnIds /\ ConnectBot("a", opener)
    \/ DisconnectBot("a", "ok")
    \/ \E c \in ConnIds : Join(c)
    \/ \E c \in ConnIds : ErrorEvent(c)
    \/ \E c \in ConnIds : EndEvent(c)
    \/ \E c \in ConnIds : LogOnly(c, "kicked")
    \/ \E c \in ConnIds, text \in StatTexts : Teams(c, text)
    \/ \E c \in ConnIds, text \in StatTexts : ScoreUpdated(c, text)

HandlerSpec == Init /\ [][NextHandler]_vars

\* TransportSpec: the server with its observers, over the manager
NextTransport ==
    \/ \E o \in Observers : Open(o)
    \/ \E o \in Observers : CloseWs(o)
    \/ \E keep \in BOOLEAN : Reload(keep)
    \/ \E id \in Ids : Post(id, "u1", "java")
    \/ ConnectBot("a", "ok")
    \/ RemoveAccount("a", "ok")
    \/ ResumeRemove

TransportSpec == Init /\ [][NextTransport]_vars

\* VariantSpec: one id, removed and added again with either variant while
\* connections of the earlier account may still be held
NextVariant ==
    \/ \E p \in Profiles : AddAccount("a", p[1], p[2])
    \/ \E lib \in Libs : RemoveAccount("a", lib)
    \/ ResumeRemove
    \/ ConnectBot("a", "ok")
    \/ \E lib \in Libs : DisconnectBot("a", lib)
    \/ \E c \in ConnIds : EndEvent(c)

VariantSpec == Init /\ [][NextVariant]_vars

\* CloseSpec: one java account whose connections are opened, joined and
\* disconnected, within a log budget that always leaves a line for the end of
\* every live connection, so that no end event is ever held back
MaxCloseLines == 8

CloseRoom(k) ==
    TotalLines(accounts) + k + Cardinality({c \in ConnIds : conns[c].state = "live"})
        <= MaxCloseLines

NextClose ==
    \/ AddAccount("a", "u1", "java")
    \/ (CloseRoom(3) /\ ConnectBotStep("a", "ok"))
    \/ (CloseRoom(1) /\ DisconnectBotStep("a", "ok"))
    \/ \E c \in ConnIds : CloseRoom(1) /\ JoinStep(c)
    \/ \E c \in ConnIds : EndEventStep(c)

\* quit() / close() is answered by the connection's 'end' / 'close' event
CloseFairness == \A c \in ConnIds : WF_vars(conns[c].closeReq /\ EndEventStep(c))

CloseSpec == Init /\ [][NextClose]_vars /\ CloseFairness

----------------------------------------------------------------------------
(* Claims *)

Has(id) == HasAccount(accounts, id)
Acc(id) == GetAccount(accounts, id)

\* C1 (as amended): addAccount, a log append on an existing account and a stat
\* merge that changes a value each emit exactly one snapshot, the account list
\* as it stands after the mutation (a set_score packet emits one per entry
\* that changes a value).  removeAccount emits exactly one snapshot for the
\* removal, the list after the deletion; when a handle is held for a present
\* account its disconnect step has appended a log line before, which emitted a
\* snapshot of its own, so that removeAccount emits two in all.
C1_SnapshotPerMutation ==
    /\ (lastOp.op = "addAccount" /\ lastOp.res = "ok") => emits = <<accounts>>
    /\ (lastOp.op = "log" /\ lastOp.res = "appended") => emits = <<accounts>>
    /\ (lastOp.op = "teams" /\ lastOp.res = "changed") => emits = <<accounts>>
    /\ (lastOp.op = "set_score" /\ lastOp.res = "changed") =>
            /\ Len(emits) \in 1..lastOp.arg[1]
            /\ emits[Len(emits)] = accounts
    /\ (lastOp.op = "removeAccount" /\ lastOp.res = "ok") =>
            /\ emits = <<accounts>>
            /\ lastOp.n = IF lastOp.arg[1] THEN 2 ELSE 1

\* C1 witness: a removeAccount of an account that held a connection has
\* completed: two snapshots in all, the last one the list after the deletion
C1_Witness ==
    /\ lastOp.op = "removeAccount"
    /\ lastOp.res = "ok"
    /\ lastOp.n = 2
    /\ emits = <<accounts>>

\* C1 as stated: each of addAccount, removeAccount, a log append on an existing
\* account and a stat merge that changes a value emits exactly one snapshot,
\* the account list after the mutation.
C1_ExactlyOneSnapshot ==
    \/ /\ lastOp.op = "addAccount"
       /\ lastOp.res = "ok"
    \/ /\ lastOp.op = "removeAccount"
       /\ lastOp.res = "ok"
    \/ /\ lastOp.op = "log"
       /\ lastOp.res = "appended"
    \/ /\ lastOp.op = "teams"
       /\ lastOp.res = "changed"
    => /\ lastOp.n = 1
       /\ emits = <<accounts>>

\* C2: an account's status becomes online only in a step of the join handler
\* (login of a java connection, spawn of a bedrock one) of a connection opened
\* for its id; no command and no other handler sets it.
C2_OnlineOnlyByJoin ==
    [][\A id \in Ids :
          (/\ HasAccount(accounts', id)
           /\ GetAccount(accounts', id).status = "online"
           /\ ~(Has(id) /\ Acc(id).status = "online"))
          => (lastOp'.op = "join" /\ lastOp'.id = id)]_vars

\* C2 witness: the spawn event of a bedrock connection has put its account online
C2_Witness ==
    /\ lastOp.op = "join"
    /\ Has("a")
    /\ Acc("a").status = "online"
    /\ Acc("a").type = "bedrock"

\* C3: every account's logs hold at most 100 lines, in every reachable state.
C3_LogsBounded ==
    \A i \in 1..Len(accounts) : Len(accounts[i].logs) <= LogCap

\* C3 witness: more than 100 lines were appended to an account whose logs hold 100
C3_Witness ==
    /\ Has("a")
    /\ sent["a"] > LogCap
    /\ Len(Acc("a").logs) = LogCap

\* C4: after n log appends to an existing account its logs hold the messages
\* of the last min(n, 100) appends, in append order.
C4_LastHundredInOrder ==
    Has("a") =>
        LET n == sent["a"]
            k == IF n < LogCap THEN n ELSE LogCap
            logs == Acc("a").logs
        IN  /\ Len(logs) = k
            /\ \A i \in 1..k : LineMessage(logs[i]) = <<"msg", n - k + i>>

\* C4 witness: the 101st append has evicted the first message and nothing else
C4_Witness ==
    /\ Has("a")
    /\ sent["a"] = LogCap + 1
    /\ Len(Acc("a").logs) = LogCap
    /\ LineMessage(Acc("a").logs[1]) = <<"msg", 2>>
    /\ LineMessage(Acc("a").logs[LogCap]) = <<"msg", LogCap + 1>>

\* C5: addAccount with an id that is not present succeeds and appends one entry
\* to the account list: that id, the given username and type, status offline,
\* no logs, all stats zero; the entries that were there are unchanged.
C5_AddCreatesOneEntry ==
    [][(lastOp'.op = "addAccount" /\ ~Has(lastOp'.id)) =>
          /\ lastOp'.res = "ok"
          /\ accounts' = Append(accounts,
                [id |-> lastOp'.id,
                 username |-> lastOp'.arg[1],
                 type |-> lastOp'.arg[2],
                 status |-> "offline",
                 logs |-> <<>>,
                 accountData |-> [shards |-> Zero, money |-> Zero,
                                  kills |-> Zero, deaths |-> Zero]])
          /\ Cardinality({i \in 1..Len(accounts') :
                                accounts'[i].id = lastOp'.id}) = 1]_vars

\* C5 witness: an account was added next to one that is connecting and has logs
C5_Witness ==
    /\ lastOp.op = "addAccount"
    /\ lastOp.res = "ok"
    /\ Len(accounts) = 2
    /\ accounts[2].id = lastOp.id
    /\ accounts[1].status = "connecting"
    /\ accounts[1].logs # <<>>

\* C6: addAccount with an id that is present fails with DuplicateId and changes
\* nothing: accounts (status, logs, stats), rows and handles stay as they
\* were, and no snapshot is emitted.
C6_DuplicateAddChangesNothing ==
    [][(lastOp'.op = "addAccount" /\ Has(lastOp'.id)) =>
          /\ lastOp'.res = "DuplicateId"
          /\ accounts' = accounts
          /\ db' = db
          /\ bots' = bots
          /\ conns' = conns
          /\ emits' = <<>>]_vars

\* C6 witness: an add was rejected for an account that is connecting, with
\* logs and a non-zero stat
C6_Witness ==
    /\ lastOp.op = "addAccount"
    /\ lastOp.res = "DuplicateId"
    /\ Has("a")
    /\ Acc("a").status = "connecting"
    /\ Acc("a").logs # <<>>
    /\ Acc("a").accountData # ZeroStats

\* C7: removeAccount(id) with an id that is not present raises no error and
\* leaves the account list, the rows and the connection handles unchanged.
C7_RemoveAbsentNoOp ==
    [][(lastOp'.op \in {"removeAccountCall", "removeAccount"} /\ ~Has(lastOp'.id)) =>
          /\ lastOp'.res = "ok"
          /\ accounts' = accounts
          /\ db' = db
          /\ bots' = bots
          /\ conns' = conns]_vars

\* C8: connectBot(id) does nothing when no account has that id or when the
\* account is online: no connection is opened, accounts, rows and handles are
\* unchanged and no snapshot is emitted.
C8_ConnectNoOp ==
    [][(/\ lastOp'.op = "connectBot"
        /\ (~Has(lastOp'.id) \/ Acc(lastOp'.id).status = "online")) =>
          /\ lastOp'.res = "none"
          /\ accounts' = accounts
          /\ db' = db
          /\ bots' = bots
          /\ conns' = conns
          /\ emits' = <<>>]_vars

\* C8 witness: connectBot has returned early on an online account
C8_Witness ==
    /\ lastOp.op = "connectBot"
    /\ lastOp.res = "none"
    /\ Has("a")
    /\ Acc("a").status = "online"
    /\ bots["a"] # NoBot

\* C9: disconnectBot(id) on an account whose status is offline does nothing:
\* no handle is asked to close, no log line is appended, no snapshot is emitted.
C9_DisconnectOfflineNoOp ==
    [][(/\ lastOp'.op = "disconnectBot"
        /\ Has(lastOp'.id)
        /\ Acc(lastOp'.id).status = "offline") =>
          /\ accounts' = accounts
          /\ bots' = bots
          /\ conns' = conns
          /\ emits' = <<>>]_vars

\* C10: when a removeAccount(id) completes, every connection opened for id
\* that has not ended has been asked to close.  Stated for a removeAccount
\* whose continuation runs right after its call, with nothing in between.
C10_NoOrphanAfterRemove ==
    [][(/\ lastOp.op = "removeAccountCall"
        /\ lastOp'.op = "removeAccount"
        /\ lastOp'.res = "ok") =>
          \A c \in ConnIds :
              (conns'[c].state = "live" /\ conns'[c].id = lastOp'.id)
              => conns'[c].closeReq]_vars

\* C11: merge idempotence.  When a teams text whose extracted value differs
\* from the stored one has been merged (one snapshot) and the same text is
\* merged again into the same account, the second merge leaves the accounts
\* unchanged and emits nothing: one snapshot in total.
C11_MergeIdempotent ==
    [][(/\ lastOp.op = "teams"
        /\ lastOp.res = "changed"
        /\ lastOp'.op = "teams"
        /\ lastOp'.id = lastOp.id
        /\ lastOp'.arg = lastOp.arg) =>
          /\ lastOp.n = 1
          /\ Len(emits) = 1
          /\ accounts' = accounts
          /\ emits' = <<>>
          /\ lastOp'.n = 0
          /\ lastOp'.res = "same"]_vars

\* C11 witness: the text "Shards 1.22m" was merged again after it had set
\* shards, and the second merge emitted nothing
C11_Witness ==
    /\ lastOp.op = "teams"
    /\ lastOp.res = "same"
    /\ lastOp.arg = <<TShards>>
    /\ Has("a")
    /\ Acc("a").accountData.shards = [m |-> 122, e |-> 4]
    /\ emits = <<>>

\* C12: a log append for an id that has no account (a lifecycle event of a
\* connection whose account was removed) is ignored: accounts, rows and
\* handles are unchanged, no snapshot is emitted and nothing is raised.
C12_LogOnMissingIgnored ==
    [][(/\ lastOp'.op \in {"log"} \cup LogOnlyEvents
        /\ ~Has(lastOp'.id)) =>
          /\ lastOp'.res \in {"ok", "ignored"}
          /\ accounts' = accounts
          /\ db' = db
          /\ bots' = bots
          /\ conns' = conns
          /\ emits' = <<>>]_vars

\* C12 witness: a connection outlived its account and delivered a 'kicked'
\* event, which logged into nothing
C12_Witness ==
    /\ lastOp.op = "kicked"
    /\ ~Has(lastOp.id)
    /\ \E c \in ConnIds : conns[c].state = "live" /\ conns[c].id = lastOp.id
    /\ emits = <<>>

\* C13: for every text that contains a recognized label followed by a number
\* digits[.digits][k|m|b], updateStat sets that label's key to the number times
\* 1, 1e3, 1e6 or 1e9 and leaves the rest alone; for every text without a
\* recognized label it leaves the accounts unchanged and emits nothing.
C13_ExtractorYields ==
    [][(lastOp'.op = "teams" /\ Has(lastOp'.id)) =>
          LET text == lastOp'.arg[1]
              i == IndexOfId(accounts, lastOp'.id)
          IN  /\ \A c \in LabelledCases \cup {RepeatedLabelCase} :
                    c.text = text =>
                        accounts' = [accounts EXCEPT ![i].accountData[c.key] = c.val]
              /\ text \in UnlabelledTexts =>
                    (accounts' = accounts /\ emits' = <<>>)]_vars

\* the 'update' messages that relay the snapshots es, in order
UpdatesOf(es) == [i \in 1..Len(es) |-> [type |-> "update", accounts |-> es[i]]]

\* C14: an observer that opens a connection first receives an init message
\* with the current account list, and every snapshot the manager emits while
\* an observer is subscribed is relayed to it, in emission order.
C14_InitThenEverySnapshot ==
    [][/\ \A o \in observers' \ observers :
              delivered'[o] = <<[type |-> "init", accounts |-> accounts']>>
       /\ \A o \in observers' \cap observers :
              delivered'[o] = UpdatesOf(emits')]_vars

\* C15: POST /accounts never answers success when addAccount failed with
\* DuplicateId and created no account.
C15_DuplicateAddReported ==
    (lastOp.op = "POST /accounts" /\ lastOp.res = "DuplicateId")
        => ~lastOp.arg[3].success

\* C16: after a restart the account list is exactly the persisted rows, in
\* their order, each with its persisted id, username and type, status offline,
\* no logs and zero stats; no handle is held and the rows are untouched.
C16_RestartLoadsRowsOnly ==
    [][lastOp'.op = "restart" =>
          /\ accounts' = [i \in 1..Len(db) |->
                [id |-> db[i].id,
                 username |-> db[i].username,
                 type |-> db[i].type,
                 status |-> "offline",
                 logs |-> <<>>,
                 accountData |-> [shards |-> Zero, money |-> Zero,
                                  kills |-> Zero, deaths |-> Zero]]]
          /\ db' = db
          /\ \A id \in Ids : bots'[id] = NoBot]_vars

\* C16 witness: the process has restarted with a persisted row
C16_Witness ==
    /\ lastOp.op = "restart"
    /\ Len(db) = 1
    /\ Has("a")
    /\ Acc("a").status = "offline"
    /\ Acc("a").logs = <<>>
    /\ Acc("a").accountData = ZeroStats

\* the state graph of an account's status
StateGraph ==
    {<<"offline", "connecting">>, <<"connecting", "online">>,
     <<"connecting", "offline">>, <<"connecting", "error">>,
     <<"online", "offline">>, <<"online", "error">>,
     <<"error", "connecting">>}

\* C17: every change of the status of an account (within one process) follows
\* the state graph, and a change from error to connecting is made by connectBot.
C17_FollowsStateGraph ==
    [][\A id \in Ids :
          (/\ lastOp'.op # "restart"
           /\ Has(id)
           /\ HasAccount(accounts', id)
           /\ GetAccount(accounts', id).status # Acc(id).status) =>
             /\ <<Acc(id).status, GetAccount(accounts', id).status>> \in StateGraph
             /\ Acc(id).status = "error" => lastOp'.op = "connectBot"]_vars

\* C18: a handle is held for an account if and only if its status is
\* connecting or online.
C18_HandleIffActive ==
    \A id \in Ids :
        Has(id) => (bots[id] # NoBot <=> Acc(id).status \in {"connecting", "online"})

\* C19: when connectBot(id) opens a connection, every earlier connection of
\* id that has not ended has been asked to close.
C19_OneConnectionPerAccount ==
    [][(lastOp'.op = "connectBot" /\ lastOp'.res = "opened") =>
          \A c \in ConnIds :
              (conns[c].state = "live" /\ conns[c].id = lastOp'.id)
              => conns[c].closeReq]_vars

\* C20: when the opener throws during connectBot(id) on an account that is
\* not online, nothing is raised to the caller, one "Connection failed" line
\* is appended to the account's logs, the handles are as they were, no
\* connection is opened, and the status is connecting.
C20_OpenerFailureCaught ==
    [][(lastOp'.op = "connectBot" /\ lastOp'.res = "failed") =>
          LET id == lastOp'.id
              before == Acc(id).logs
              after == GetAccount(accounts', id).logs
          IN  /\ HasAccount(accounts', id)
              /\ GetAccount(accounts', id).status = "connecting"
              /\ Len(after) = Len(before) + 2
              /\ SubSeq(after, 1, Len(before)) = before
              /\ LineMessage(after[Len(after) - 1])[1] = "Connecting to"
              /\ LineMessage(after[Len(after)])[1] = "Connection failed"
              /\ bots' = bots
              /\ conns' = conns
              /\ emits'[Len(emits')] = accounts']_vars

\* C20 witness: the opener threw on a first connect: connecting, failure
\* logged, no handle
C20_Witness ==
    /\ lastOp.op = "connectBot"
    /\ lastOp.res = "failed"
    /\ Has("a")
    /\ Acc("a").status = "connecting"
    /\ bots["a"] = NoBot
    /\ LineMessage(Acc("a").logs[Len(Acc("a").logs)])[1] = "Connection failed"

\* C21: disconnectBot(id) on an account with a held handle appends the
\* disconnect line to its logs, asks the connection to close, discards the
\* handle and leaves the status as it was.
C21_DisconnectFrame ==
    [][(/\ lastOp'.op = "disconnectBot"
        /\ Has(lastOp'.id)
        /\ bots[lastOp'.id] # NoBot) =>
          LET id == lastOp'.id
              c == bots[id]
              after == GetAccount(accounts', id)
          IN  /\ lastOp'.res = "ok"
              /\ bots'[id] = NoBot
              /\ conns[c].state = "live" => conns'[c].closeReq
              /\ after.status = Acc(id).status
              /\ Len(after.logs) = Len(Acc(id).logs) + 1
              /\ LineMessage(after.logs[Len(after.logs)])[1] = "Disconnecting manually..."]_vars

\* C22: an account's status becomes connecting, and a connection is opened,
\* only in a connectBot(id) step for that id; no error, kick or end event and
\* no failure path starts a connection.
C22_NoAutomaticRetry ==
    [][/\ \A id \in Ids :
            (/\ HasAccount(accounts', id)
             /\ GetAccount(accounts', id).status = "connecting"
             /\ ~(Has(id) /\ Acc(id).status = "connecting"))
            => (lastOp'.op = "connectBot" /\ lastOp'.id = id)
       /\ \A c \in ConnIds :
            (conns'[c].state = "live" /\ conns[c].state # "live")
            => (/\ lastOp'.op = "connectBot"
                /\ lastOp'.id = conns'[c].id
                /\ bots'[conns'[c].id] = c)]_vars

\* an end, error or kick event has been handled for an existing account and
\* nothing is connecting or live for it
C22_Witness ==
    /\ lastOp.op \in {"end", "error", "kicked"}
    /\ Has(lastOp.id)
    /\ Acc(lastOp.id).status \in {"offline", "error"}
    /\ \A c \in ConnIds : conns[c].state # "live"

\* C23: after disconnectBot(id) on an account with a held handle, if the
\* account is not removed and the connection delivers its end event, the
\* account's status eventually becomes offline.
C23_DisconnectLeadsToOffline ==
    \A id \in Ids :
        (lastOp.op = "disconnectBot" /\ lastOp.id = id /\ lastOp.n = 1)
            ~> (~Has(id) \/ Acc(id).status = "offline")

\* C24: at the end of every command, failed adds and removes of absent ids
\* included, the ids of the accounts in memory are the ids of the persisted
\* rows.
C24_MemoryMatchesRows ==
    /\ AccountIds(accounts) = AccountIds(db)
    /\ Len(accounts) = Cardinality(AccountIds(accounts))
    /\ Len(db) = Cardinality(AccountIds(db))

\* a removal has completed and left one account with its row
C24_Witness ==
    /\ lastOp.op = "removeAccount"
    /\ lastOp.res = "ok"
    /\ Len(accounts) = 1
    /\ Len(db) = 1

\* C25: for every item text, the java scoreUpdated handler changes the stats
\* and notifies exactly as updateStat does on that text: same key, same value
\* from the number after the label, same decision to emit.
C25_ScoreHandlerIsExtractor ==
    [][lastOp'.op = "scoreUpdated" =>
          LET m == updateStat(M, lastOp'.id, lastOp'.arg[1])
          IN  /\ accounts' = m.accounts
              /\ Len(emits') = Len(m.emits)]_vars

\* C26: on every prompt, java window or bedrock form, the handler sends
\* exactly one option-select response: the index of the first option that
\* matches an AFK-teleport phrase, or index 0 when no option matches.
C26_OneResponsePerPrompt ==
    [][lastOp'.op \in {"windowOpen", "modal_form_request"} =>
          LET type == IF lastOp'.op = "windowOpen" THEN "java" ELSE "bedrock"
              idx == FindIndex(type, lastOp'.arg[1])
          IN  lastOp'.arg[2] = <<IF idx # -1 THEN idx ELSE 0>>]_vars

\* C27: after disconnectBot(id) and a new connectBot(id), the end event of
\* the old connection, closed and no longer held, leaves the account's status
\* alone while the connection now held is open and the account is connecting
\* or online.
C27_StaleEndIgnored ==
    [][\A c \in ConnIds :
          (/\ lastOp'.op = "end"
           /\ conns[c].state = "live" /\ conns'[c].state # "live"
           /\ conns[c].closeReq
           /\ Has(conns[c].id)
           /\ bots[conns[c].id] \notin {NoBot, c}
           /\ conns[bots[conns[c].id]].state = "live"
           /\ Acc(conns[c].id).status \in {"connecting", "online"})
          => (/\ HasAccount(accounts', conns[c].id)
              /\ GetAccount(accounts', conns[c].id).status = Acc(conns[c].id).status)]_vars

\* C28: once removeAccount(id) has completed, an event of a connection opened
\* for the removed account changes no account: it does not bring the entry
\* back, and it leaves alone an account added afterwards under the same id
\* (one that has no log line yet, so no connectBot since it was added).
C28_LateEventsChangeNothing ==
    [][(/\ lastOp'.op \in {"join", "end", "error", "spawn", "kicked"}
        /\ (~Has(lastOp'.id) \/ Acc(lastOp'.id).logs = <<>>))
       => accounts' = accounts]_vars

\* C29: in every reachable state, whatever the interleaving of connectBot,
\* disconnectBot and the two halves of removeAccount, every id with a
\* connection handle is the id of an account.
C29_HandlesOfAccountsOnly ==
    {id \in Ids : bots[id] # NoBot} \subseteq AccountIds(accounts)

\* C30: no mutation is left un-notified.  When a command or a connection
\* handler has changed an account's status, logs or stats, or the set of
\* accounts, the last snapshot it emitted is the account list it leaves.
C30_LastSnapshotIsCurrent ==
    [][(accounts' # accounts /\ lastOp'.op # "restart")
       => (emits' # <<>> /\ emits'[Len(emits')] = accounts')]_vars

\* a score update has changed a stat and the snapshot shows the new value
C30_Witness ==
    /\ lastOp.op = "scoreUpdated"
    /\ lastOp.res = "changed"
    /\ emits # <<>>
    /\ emits[Len(emits)] = accounts

\* C31: after any number of evaluations of the server module in one process,
\* first start or reload, exactly one broadcast listener is registered on the
\* manager's 'update' event.
C31_OneBroadcastListener == listeners = 1

====
